---- MODULE Spec2Model ----
(***************************************************************************)
(* Model of the zanifu-guard-link back end: the order fraud triggers, the  *)
(* e-mail two-factor code functions and the admin-actions gateway.         *)
(* Time is counted in minutes; money in whole currency units.              *)
(***************************************************************************)
EXTENDS Integers, Sequences, FiniteSets, TLC

VARIABLES now, orders, fraud_flags, http_request_queue, user_roles, profiles,
          two_factor_codes, sends, request, response, gen_rand, gen_code,
          authStep, session, verified, location, pendingUserId, effect,
          transaction_audit, order_txns, verifies, admin_calls

fraudVars == <<orders, fraud_flags, http_request_queue, transaction_audit,
               order_txns>>
authVars == <<user_roles, profiles>>
otpVars == <<two_factor_codes, sends, verifies>>
httpVars == <<request, response>>
genVars == <<gen_rand, gen_code>>
clientVars == <<authStep, session, verified, location, pendingUserId, effect>>

vars == <<now, fraudVars, authVars, otpVars, httpVars, genVars, admin_calls, clientVars>>

(***************************************************************************)
(* Bounds of the model                                                     *)
(***************************************************************************)
MaxOrders == 4
MaxResolved == 2
MaxClock == 1500
MaxCodes == 3
MaxOtpClock == 15
MaxRequests == 4
MaxAdminRequests == 3
MaxInflight == 2
RandDenominator == 900000

Users == {"u1", "u2"}
Roles == {"customer", "admin", "security_personnel"}
NoUser == "none"
\* NULL in the nullable columns resolved_at and resolution_notes
NoTime == -1
NoNotes == "null"

\* The Auth page as it mounts: the credentials step, nothing pending, the
\* session effect scheduled, no session in the browser.
MountAuth ==
    /\ authStep = "credentials"
    /\ pendingUserId = NoUser
    /\ location = "/auth"
    /\ effect = TRUE

InitClient ==
    /\ MountAuth
    /\ session = NoUser
    /\ verified = FALSE

(***************************************************************************)
(* Program constants                                                       *)
(***************************************************************************)
HourMinutes == 60
DayMinutes == 1440
VelocityThreshold == 3
HighValueThreshold == 500
DailyLimit == 1000
CodeLifetimeMinutes == 10
CodeBase == 100000
CodeSpan == 900000

RECURSIVE SumAmounts(_)
SumAmounts(s) == IF s = <<>> THEN 0 ELSE Head(s).total_amount + SumAmounts(Tail(s))


(***************************************************************************)
(* fraud_flags: BEFORE INSERT trigger and row defaults                     *)
(***************************************************************************)
set_fraud_flag_approval_requirement_Skip(new_row) == new_row

set_fraud_flag_approval_requirement(new_row) ==
    IF new_row.severity = "high" THEN [new_row EXCEPT !.requires_approval = TRUE] ELSE new_row

\* INSERT INTO fraud_flags (user_id, order_id, flag_type, severity, metadata):
\* column defaults, then the BEFORE INSERT trigger, then the row is stored.
InsertFraudFlag(flags, u, oid, ftype, sev, meta) ==
    Append(flags, set_fraud_flag_approval_requirement(
        [id |-> Len(flags) + 1, user_id |-> u, order_id |-> oid,
         flag_type |-> ftype, severity |-> sev, metadata |-> meta,
         resolved |-> FALSE, resolved_by |-> NoUser,
         resolved_at |-> NoTime, resolution_notes |-> NoNotes,
         requires_approval |-> FALSE]))

(***************************************************************************)
(* check_order_fraud: AFTER INSERT trigger on orders                       *)
(***************************************************************************)
recent_order_count_Inclusive(ords, new_row, t) ==
    Len(SelectSeq(ords, LAMBDA o : /\ o.user_id = new_row.user_id
                                   /\ o.created_at >= t - HourMinutes
                                   /\ o.id # new_row.id))

\* SELECT COUNT( * ) ... created_at > NOW() - INTERVAL '1 hour' AND id != NEW.id
recent_order_count(ords, new_row, t) ==
    Len(SelectSeq(ords, LAMBDA o : /\ o.user_id = new_row.user_id
                                   /\ o.created_at > t - HourMinutes
                                   /\ o.id # new_row.id))

\* SELECT COALESCE(SUM(total_amount), 0) ... created_at > NOW() - INTERVAL '24 hours'
user_total_today(ords, new_row, t) ==
    SumAmounts(SelectSeq(ords, LAMBDA o : /\ o.user_id = new_row.user_id
                                          /\ o.created_at > t - DayMinutes
                                          /\ o.id # new_row.id))

VelocityRule(flags, ords, new_row, t) ==
    IF recent_order_count(ords, new_row, t) >= VelocityThreshold
    THEN InsertFraudFlag(flags, new_row.user_id, new_row.id, "velocity", "high",
                         recent_order_count(ords, new_row, t) + 1)
    ELSE flags

HighValueRule_AtLeast(flags, new_row) ==
    IF new_row.total_amount >= HighValueThreshold
    THEN InsertFraudFlag(flags, new_row.user_id, new_row.id, "high_value", "medium",
                         new_row.total_amount)
    ELSE flags

HighValueRule(flags, new_row) ==
    IF new_row.total_amount > HighValueThreshold
    THEN InsertFraudFlag(flags, new_row.user_id, new_row.id, "high_value", "medium",
                         new_row.total_amount)
    ELSE flags

DailyLimitRule_AtLeast(flags, ords, new_row, t) ==
    IF user_total_today(ords, new_row, t) + new_row.total_amount >= DailyLimit
    THEN InsertFraudFlag(flags, new_row.user_id, new_row.id, "daily_limit", "high",
                         user_total_today(ords, new_row, t) + new_row.total_amount)
    ELSE flags

DailyLimitRule(flags, ords, new_row, t) ==
    IF user_total_today(ords, new_row, t) + new_row.total_amount > DailyLimit
    THEN InsertFraudFlag(flags, new_row.user_id, new_row.id, "daily_limit", "high",
                         user_total_today(ords, new_row, t) + new_row.total_amount)
    ELSE flags

\* An IF / ELSIF chain would stop at the first rule that fires.
check_order_fraud_Exclusive(flags, ords, new_row, t) ==
    IF VelocityRule(flags, ords, new_row, t) # flags
    THEN VelocityRule(flags, ords, new_row, t)
    ELSE IF HighValueRule(flags, new_row) # flags
    THEN HighValueRule(flags, new_row)
    ELSE DailyLimitRule(flags, ords, new_row, t)

check_order_fraud(flags, ords, new_row, t) ==
    DailyLimitRule(HighValueRule(VelocityRule(flags, ords, new_row, t), new_row), ords, new_row, t)

(***************************************************************************)
(* Order ledger                                                            *)
(***************************************************************************)
LastCreated == IF orders = <<>> THEN -1 ELSE orders[Len(orders)].created_at

MaxTxns == 2
NoTxns == [t \in 1..MaxTxns |-> [pc |-> "idle"]]

NoRequest == [n |-> 0, kind |-> "none"]
NoResponse == [status |-> 0]
Handled(kind, fields) == [n |-> request.n + 1, kind |-> kind] @@ fields

\* With an in-line HTTP call the trigger would raise when the endpoint cannot
\* be reached.
notify_fraud_alert_Inline(queue, new_row, endpoint) ==
    IF new_row.severity = "high"
    THEN Append(queue, [flagId |-> new_row.id,
                        status |-> IF endpoint = "up" THEN "queued" ELSE "raised"])
    ELSE queue

\* notify_fraud_alert, AFTER INSERT on fraud_flags: for a high flag
\* net.http_post stores the request in net.http_request_queue and returns;
\* the state of the endpoint is not consulted.
notify_fraud_alert(queue, new_row, endpoint) ==
    IF new_row.severity = "high"
    THEN Append(queue, [flagId |-> new_row.id, status |-> "queued"])
    ELSE queue

\* The trigger fires FOR EACH ROW of the flags an order insert has added.
RECURSIVE on_fraud_flag_created(_, _, _)
on_fraud_flag_created(queue, rows, endpoint) ==
    IF rows = <<>> THEN queue
    ELSE on_fraud_flag_created(notify_fraud_alert(queue, Head(rows), endpoint),
                               Tail(rows), endpoint)

\* NULL in the nullable column old_value
NoValue == [id |-> 0]

audit_order_changes_Silent(audit, tg_op, old_row, new_row) == audit

\* AFTER INSERT OR UPDATE ON orders FOR EACH ROW: one transaction_audit row,
\* 'create' with to_jsonb(NEW) or 'update' with to_jsonb(OLD) and to_jsonb(NEW).
audit_order_changes(audit, tg_op, old_row, new_row) ==
    IF tg_op = "INSERT"
    THEN Append(audit, [user_id |-> new_row.user_id, order_id |-> new_row.id,
                        action_type |-> "create", entity_type |-> "order",
                        entity_id |-> new_row.id, old_value |-> NoValue,
                        new_value |-> new_row])
    ELSE IF tg_op = "UPDATE"
    THEN Append(audit, [user_id |-> new_row.user_id, order_id |-> new_row.id,
                        action_type |-> "update", entity_type |-> "order",
                        entity_id |-> new_row.id, old_value |-> old_row,
                        new_value |-> new_row])
    ELSE audit

Raised(queue) == \E i \in 1..Len(queue) : queue[i].status = "raised"

\* Checkout: INSERT INTO orders (user_id, total_amount); created_at DEFAULT now().
\* The row, the flags of the AFTER INSERT triggers and the queued requests are
\* one transaction: an exception raised in a trigger rolls all of it back and
\* the insert returns an error.
InsertOrder(u, amt, endpoint) ==
    /\ Len(orders) < MaxOrders
    /\ request' = Handled("order", [user_id |-> u, total_amount |-> amt,
                                    endpoint |-> endpoint])
    /\ LET new_row == [id |-> Len(orders) + 1, user_id |-> u,
                   total_amount |-> amt, status |-> "pending",
                   created_at |-> now, updated_at |-> now]
           ords == Append(orders, new_row)
           audit == audit_order_changes(transaction_audit, "INSERT", NoValue, new_row)
           flags == check_order_fraud(fraud_flags, ords, new_row, now)
           queue == on_fraud_flag_created(http_request_queue,
                        SubSeq(flags, Len(fraud_flags) + 1, Len(flags)), endpoint)
       IN  IF Raised(queue)
           THEN /\ response' = [status |-> 500]
                /\ UNCHANGED fraudVars
           ELSE /\ response' = [status |-> 201]
                /\ orders' = ords
                /\ fraud_flags' = flags
                /\ http_request_queue' = queue
                /\ transaction_audit' = audit
                /\ UNCHANGED order_txns
    /\ UNCHANGED <<now, authVars, otpVars, genVars, admin_calls, clientVars>>

\* Wall-clock time passes between two inserts (one step per gap).
Tick(d) ==
    /\ now = LastCreated
    /\ now + d <= MaxClock
    /\ now' = now + d
    /\ UNCHANGED <<fraudVars, authVars, otpVars, httpVars, genVars, admin_calls, clientVars>>

(***************************************************************************)
(* user_roles, profiles and the signup trigger                             *)
(***************************************************************************)
\* user_roles rows are (user_id, role) pairs, UNIQUE (user_id, role).
RoleRows(f) == {[user_id |-> u, role |-> f[u]] : u \in DOMAIN f}

NewProfile(u) ==
    [email |-> u, account_locked |-> FALSE, failed_login_attempts |-> 0,
     two_factor_enabled |-> FALSE, last_login_at |-> -1]

\* handle_new_user for every user: one profile and one 'customer' role row.
handle_new_user_roles == RoleRows([u \in Users |-> "customer"])
handle_new_user_profiles == [u \in Users |-> NewProfile(u)]

has_role(roles, u, r) == \E row \in roles : row.user_id = u /\ row.role = r

(***************************************************************************)
(* Fraud flag resolution (dashboard update, filtered by row-level policy)  *)
(***************************************************************************)
FlagUpdatePolicy_Anyone(roles, caller) == TRUE

\* USING (has_role(auth.uid(), 'admin')) and
\* USING (has_role(auth.uid(), 'security_personnel')), combined by OR
FlagUpdatePolicy(roles, caller) ==
    has_role(roles, caller, "admin") \/ has_role(roles, caller, "security_personnel")

ResolvedCount == Cardinality({i \in 1..Len(fraud_flags) : fraud_flags[i].resolved})

\* .update({resolved, resolved_at, resolved_by, resolution_notes}).eq("id", ...):
\* the row is written when the UPDATE policies admit the caller, else no row
\* matches and the statement changes nothing.
resolveFraudFlag(i, caller, notes) ==
    /\ i \in 1..Len(fraud_flags)
    /\ ResolvedCount < MaxResolved
    /\ fraud_flags' =
         IF FlagUpdatePolicy(user_roles, caller)
         THEN [fraud_flags EXCEPT ![i].resolved = TRUE, ![i].resolved_at = now,
                                  ![i].resolved_by = caller,
                                  ![i].resolution_notes = notes]
         ELSE fraud_flags
    /\ UNCHANGED <<now, orders, http_request_queue, transaction_audit, order_txns,
                   authVars, otpVars, httpVars,
                   genVars, admin_calls, clientVars>>

(***************************************************************************)
(* Specification of the fraud rule engine: inserts and the passage of time *)
(***************************************************************************)
Amounts == {250, 500, 501}
Gaps == {30, 1440}

NoSends == [s \in 1..MaxInflight |-> [pc |-> "idle"]]
NoVerifies == [v \in 1..MaxInflight |-> [pc |-> "idle"]]
NoCalls == [a \in 1..MaxInflight |-> [pc |-> "idle"]]

InitFraud ==
    /\ now = 0
    /\ orders = <<>>
    /\ fraud_flags = <<>>
    /\ http_request_queue = <<>>
    /\ transaction_audit = <<>>
    /\ order_txns = NoTxns
    /\ InitClient
    /\ user_roles = handle_new_user_roles
    /\ profiles = handle_new_user_profiles
    /\ two_factor_codes = <<>>
    /\ sends = NoSends
    /\ verifies = NoVerifies
    /\ admin_calls = NoCalls
    /\ request = NoRequest
    /\ response = NoResponse
    /\ gen_rand = 0
    /\ gen_code = <<>>

NextFraud ==
    \/ \E u \in Users, amt \in Amounts : InsertOrder(u, amt, "up")
    \/ \E d \in Gaps : Tick(d)

SpecFraud == InitFraud /\ [][NextFraud]_vars

(***************************************************************************)
(* Specification of the flag life cycle: inserts and resolutions           *)
(***************************************************************************)
FlagAmounts == {400, 501}

InitFlags ==
    /\ now = 0
    /\ orders = <<>>
    /\ fraud_flags = <<>>
    /\ http_request_queue = <<>>
    /\ transaction_audit = <<>>
    /\ order_txns = NoTxns
    /\ InitClient
    /\ user_roles \in {RoleRows(f) : f \in [Users -> Roles]}
    /\ profiles = handle_new_user_profiles
    /\ two_factor_codes = <<>>
    /\ sends = NoSends
    /\ verifies = NoVerifies
    /\ admin_calls = NoCalls
    /\ request = NoRequest
    /\ response = NoResponse
    /\ gen_rand = 0
    /\ gen_code = <<>>

NextFlags ==
    \/ \E u \in Users, amt \in FlagAmounts : InsertOrder(u, amt, "up")
    \/ \E i \in 1..(3 * MaxOrders), caller \in Users :
          resolveFraudFlag(i, caller, "reviewed")

SpecFlags == InitFlags /\ [][NextFlags]_vars

(***************************************************************************)
(* Properties of the fraud rule engine                                     *)
(***************************************************************************)
OrderIds == 1..Len(orders)

FlagsOf(oid, ftype) ==
    {i \in 1..Len(fraud_flags) : /\ fraud_flags[i].order_id = oid
                                 /\ fraud_flags[i].flag_type = ftype}

\* Order p is an order of the same user that existed when order oid was
\* evaluated and was created less than `window` minutes before it.
InWindow(p, oid, window) ==
    /\ p < oid
    /\ orders[p].user_id = orders[oid].user_id
    /\ orders[oid].created_at - orders[p].created_at < window

RECURSIVE CountBefore(_, _, _)
CountBefore(oid, p, window) ==
    IF p = 0 THEN 0
    ELSE (IF InWindow(p, oid, window) THEN 1 ELSE 0) + CountBefore(oid, p - 1, window)

RECURSIVE TotalBefore(_, _, _)
TotalBefore(oid, p, window) ==
    IF p = 0 THEN 0
    ELSE (IF InWindow(p, oid, window) THEN orders[p].total_amount ELSE 0)
         + TotalBefore(oid, p - 1, window)

HourCount(oid) == CountBefore(oid, oid - 1, HourMinutes)

DayTotal(oid) == TotalBefore(oid, oid - 1, DayMinutes) + orders[oid].total_amount

\* C1: an order has a velocity/high flag exactly when at least 3 other orders
\* of its user were created strictly less than one hour before it (it is the
\* 4th or later order of the hour); an order exactly one hour old is not counted.
C1_VelocityRule ==
    \A oid \in OrderIds :
        /\ (HourCount(oid) >= 3) <=> (FlagsOf(oid, "velocity") # {})
        /\ \A i \in FlagsOf(oid, "velocity") :
              /\ fraud_flags[i].severity = "high"
              /\ fraud_flags[i].user_id = orders[oid].user_id

\* A 4th order within the hour is flagged, and the flag counts 4 orders.
C1_Witness ==
    \E oid \in OrderIds :
        /\ HourCount(oid) = 3
        /\ orders[oid].created_at > orders[1].created_at
        /\ \E i \in FlagsOf(oid, "velocity") : fraud_flags[i].metadata = 4

\* C2: an order has a high_value/medium flag if its total_amount is above 500
\* and no high_value flag if it is 500 or less.
C2_HighValueRule ==
    \A oid \in OrderIds :
        /\ orders[oid].total_amount > 500 =>
              \E i \in FlagsOf(oid, "high_value") : fraud_flags[i].severity = "medium"
        /\ orders[oid].total_amount <= 500 => FlagsOf(oid, "high_value") = {}

C2_Witness ==
    /\ \E oid \in OrderIds : orders[oid].total_amount = 500
    /\ \E oid \in OrderIds : orders[oid].total_amount = 501
                             /\ FlagsOf(oid, "high_value") # {}

\* C3: an order has a daily_limit/high flag if the amounts of its user's
\* other orders of the trailing 24 hours plus its own amount exceed 1000, and
\* no daily_limit flag if that sum is 1000 or less.
C3_DailyLimitRule ==
    \A oid \in OrderIds :
        /\ DayTotal(oid) > 1000 =>
              \E i \in FlagsOf(oid, "daily_limit") : fraud_flags[i].severity = "high"
        /\ DayTotal(oid) <= 1000 => FlagsOf(oid, "daily_limit") = {}

\* One order brings the total to exactly 1000 and is not flagged, a later one
\* crosses it and is flagged, and an order exactly 24 hours old is left out.
C3_Witness ==
    /\ \E oid \in OrderIds : /\ DayTotal(oid) = 1000
                             /\ CountBefore(oid, oid - 1, DayMinutes) > 0
                             /\ FlagsOf(oid, "daily_limit") = {}
    /\ \E oid \in OrderIds : /\ DayTotal(oid) > 1000
                             /\ FlagsOf(oid, "daily_limit") # {}
    /\ \E oid \in OrderIds : \E p \in OrderIds :
           /\ p < oid
           /\ orders[p].user_id = orders[oid].user_id
           /\ orders[oid].created_at - orders[p].created_at = DayMinutes

\* C4: every fraud flag of severity high has requires_approval = TRUE, after
\* any sequence of order inserts and flag resolutions.
C4_HighRequiresApproval ==
    \A i \in 1..Len(fraud_flags) :
        fraud_flags[i].severity = "high" => fraud_flags[i].requires_approval

\* A high flag was resolved and still requires approval, next to a medium flag
\* that does not.
C4_Witness ==
    /\ \E i \in 1..Len(fraud_flags) : /\ fraud_flags[i].severity = "high"
                                      /\ fraud_flags[i].resolved
                                      /\ fraud_flags[i].requires_approval
    /\ \E i \in 1..Len(fraud_flags) : /\ fraud_flags[i].severity = "medium"
                                      /\ ~fraud_flags[i].requires_approval

(***************************************************************************)
(* generateCode: Math.floor(100000 + Math.random() * 900000).toString()    *)
(* Math.random() is k / RandDenominator for a sample k of 0..Denominator-1 *)
(***************************************************************************)
DigitChar == <<"0", "1", "2", "3", "4", "5", "6", "7", "8", "9">>

\* Number.prototype.toString of a non-negative integer: its decimal digits.
RECURSIVE toString(_)
toString(n) ==
    IF n < 10 THEN <<DigitChar[n + 1]>>
    ELSE Append(toString(n \div 10), DigitChar[(n % 10) + 1])

RECURSIVE padStart(_, _, _)
padStart(str, width, ch) ==
    IF Len(str) >= width THEN str ELSE padStart(<<ch>> \o str, width, ch)

RandomSamples == 0..(RandDenominator - 1)

\* Math.floor((k / RandDenominator) * span), computed in 32-bit integers:
\* k = a * 1000 + b, and a * span = q * RandDenominator + r.
ScaledFloor(k, span) ==
    LET a == k \div 1000
        b == k % 1000
        q == (a * span) \div RandDenominator
        r == (a * span) % RandDenominator
    IN  q * 1000 + (r * 1000 + b * span) \div RandDenominator

generateCode_Padded(k) ==
    padStart(toString(ScaledFloor(k, CodeBase + CodeSpan)), 6, "0")

generateCode(k) == toString(CodeBase + ScaledFloor(k, CodeSpan))

GenerateCode ==
    /\ gen_code = <<>>
    /\ gen_code' = generateCode(gen_rand)
    /\ UNCHANGED <<now, fraudVars, authVars, otpVars, httpVars, gen_rand, admin_calls,
                   clientVars>>

InitGen ==
    /\ now = 0
    /\ orders = <<>>
    /\ fraud_flags = <<>>
    /\ http_request_queue = <<>>
    /\ transaction_audit = <<>>
    /\ order_txns = NoTxns
    /\ InitClient
    /\ user_roles = handle_new_user_roles
    /\ profiles = handle_new_user_profiles
    /\ two_factor_codes = <<>>
    /\ sends = NoSends
    /\ verifies = NoVerifies
    /\ admin_calls = NoCalls
    /\ request = NoRequest
    /\ response = NoResponse
    /\ gen_rand \in RandomSamples
    /\ gen_code = <<>>

NextGen == GenerateCode

SpecGen == InitGen /\ [][NextGen]_vars

IsDigits(str) == \A i \in 1..Len(str) : \E d \in 1..10 : str[i] = DigitChar[d]

\* C8 (amended): every code produced by generateCode is a string of exactly
\* 6 decimal digits whose first digit is not 0, and every value from 100000
\* to 999999 is a possible output (the value 100000 + n is produced from the
\* sample n or the sample n + 1).
C8_CodeDomain ==
    /\ gen_code # <<>> =>
          /\ Len(gen_code) = 6
          /\ IsDigits(gen_code)
          /\ gen_code[1] # "0"
    /\ gen_rand < 900000 =>
          \E k \in {gen_rand, gen_rand + 1} :
              /\ k \in RandomSamples
              /\ generateCode(k) = toString(100000 + gen_rand)

\* The largest code, 999999, has been generated.
C8_Witness == gen_code = <<"9", "9", "9", "9", "9", "9">>

\* C8 as stated: every code is a string of exactly 6 decimal digits and every
\* value from 000000 to 999999 is a possible output.
C8_Original ==
    /\ gen_code # <<>> => Len(gen_code) = 6 /\ IsDigits(gen_code)
    /\ \A v \in 0..999999 :
          \E k \in RandomSamples : generateCode(k) = padStart(toString(v), 6, "0")

(***************************************************************************)
(* send-2fa-code and verify-2fa-code                                       *)
(***************************************************************************)
NoCode == <<>>

Invalidate_Nothing(codes, userId) == codes

\* UPDATE two_factor_codes SET used = true WHERE user_id = userId AND used = false
Invalidate(codes, userId) ==
    [i \in DOMAIN codes |->
        IF codes[i].user_id = userId /\ ~codes[i].used
        THEN [codes[i] EXCEPT !.used = TRUE]
        ELSE codes[i]]

\* With the two statements in the other order the new row would be marked used.
InsertCode_ThenInvalidate(codes, userId, email, code, t) ==
    Invalidate(Append(codes, [id |-> Len(codes) + 1, user_id |-> userId,
                              email |-> email, code |-> code, created_at |-> t,
                              expires_at |-> t + CodeLifetimeMinutes,
                              used |-> FALSE]), userId)

\* INSERT (user_id, email, code); created_at, expires_at and used are defaults.
InsertCode(codes, userId, email, code, t) ==
    Append(codes, [id |-> Len(codes) + 1, user_id |-> userId, email |-> email,
                   code |-> code, created_at |-> t,
                   expires_at |-> t + CodeLifetimeMinutes, used |-> FALSE])

InflightSends == {s \in DOMAIN sends : sends[s].pc # "idle"}

\* resend.emails.send: the message is accepted for delivery, or the relay
\* rejects it and the call returns {data: null, error}, or the call throws.
MailOutcomes == {"sent", "rejected", "throws"}

\* The handler does not look at the result of resend.emails.send: only a
\* throw reaches the catch block.  delivered records whether the code went out.
SendResponse(mail) ==
    [status |-> IF mail = "throws" THEN 500 ELSE 200, delivered |-> mail = "sent"]

\* What one send-2fa-code request does to the table, and its response.
Send2FA(codes, email, userId, k, insertOk, mail, t) ==
    IF email = "" \/ userId = ""
    THEN [codes |-> codes, response |-> [status |-> 400, delivered |-> FALSE]]
    ELSE LET code == generateCode(k)
             invalidated == Invalidate(codes, userId)
         IN  IF ~insertOk
             THEN [codes |-> invalidated,
                   response |-> [status |-> 500, delivered |-> FALSE]]
             ELSE [codes |-> InsertCode(invalidated, userId, email, code, t),
                   response |-> SendResponse(mail)]

\* One send-2fa-code request, run to completion.
send_2fa_code(email, userId, k, insertOk, mail) ==
    /\ request.n < MaxRequests
    /\ Len(two_factor_codes) < MaxCodes
    /\ InflightSends = {}
    /\ request' = Handled("send", [userId |-> userId, email |-> email])
    /\ LET r == Send2FA(two_factor_codes, email, userId, k, insertOk, mail, now)
       IN  /\ two_factor_codes' = r.codes
           /\ response' = r.response
    /\ UNCHANGED <<now, fraudVars, authVars, sends, verifies, genVars, admin_calls, clientVars>>

\* The rows the verification query selects: user_id, code, used = false and
\* expires_at > now.
Candidates_NoExpiry(codes, userId, code, t) ==
    {i \in DOMAIN codes : /\ codes[i].user_id = userId
                          /\ codes[i].code = code
                          /\ ~codes[i].used}

Candidates_IncludingUsed(codes, userId, code, t) ==
    {i \in DOMAIN codes : /\ codes[i].user_id = userId
                          /\ codes[i].code = code
                          /\ codes[i].expires_at > t}

Candidates(codes, userId, code, t) ==
    {i \in DOMAIN codes : /\ codes[i].user_id = userId
                          /\ codes[i].code = code
                          /\ ~codes[i].used
                          /\ codes[i].expires_at > t}

\* ORDER BY created_at DESC LIMIT 1: any row with the latest created_at.
MostRecent(codes, rows) ==
    {i \in rows : \A j \in rows : codes[j].created_at <= codes[i].created_at}

\* A handler that told an expired or used code from an unknown one.
Rejection_Revealing(codes, userId, code, t) ==
    [status |-> 200, valid |-> FALSE,
     error |-> IF \E i \in DOMAIN codes : /\ codes[i].user_id = userId
                                          /\ codes[i].code = code
               THEN "Code expired or already used"
               ELSE "Invalid or expired verification code"]

\* if (!codeRecord): the response when the lookup finds no row.
Rejection(codes, userId, code, t) ==
    [status |-> 200, valid |-> FALSE, error |-> "Invalid or expired verification code"]

\* What one verify-2fa-code request can do to the tables, and its response.
Verify2FA(codes, profs, userId, code, fetchOk, t) ==
    IF userId = "" \/ code = NoCode
    THEN {[codes |-> codes, profiles |-> profs,
           response |-> [status |-> 400, valid |-> FALSE,
                         error |-> "User ID and code are required"]]}
    ELSE IF ~fetchOk
    THEN {[codes |-> codes, profiles |-> profs,
           response |-> [status |-> 500, valid |-> FALSE,
                         error |-> "Verification failed"]]}
    ELSE LET rows == Candidates(codes, userId, code, t)
         IN  IF rows = {}
             THEN {[codes |-> codes, profiles |-> profs,
                    response |-> Rejection(codes, userId, code, t)]}
             ELSE {[codes |-> [codes EXCEPT ![i].used = TRUE],
                    profiles |->
                        [u \in DOMAIN profs |->
                            IF u = userId
                            THEN [profs[u] EXCEPT !.two_factor_enabled = TRUE,
                                                  !.last_login_at = t]
                            ELSE profs[u]],
                    response |-> [status |-> 200, valid |-> TRUE, error |-> ""]] :
                   i \in MostRecent(codes, rows)}

\* One verify-2fa-code request, run to completion.
verify_2fa_code(userId, code, fetchOk) ==
    /\ request.n < MaxRequests
    /\ request' = Handled("verify", [userId |-> userId, code |-> code])
    /\ \E r \in Verify2FA(two_factor_codes, profiles, userId, code, fetchOk, now) :
          /\ two_factor_codes' = r.codes
          /\ profiles' = r.profiles
          /\ response' = r.response
    /\ UNCHANGED <<now, fraudVars, user_roles, sends, verifies, genVars, admin_calls, clientVars>>

\* Wall-clock time passes.
ClockAdvance(d) ==
    /\ now + d <= MaxOtpClock
    /\ now' = now + d
    /\ UNCHANGED <<fraudVars, authVars, otpVars, httpVars, genVars, admin_calls, clientVars>>

\* A send-2fa-code request up to its first write: validation, generateCode
\* and the invalidating UPDATE.
SendInvalidate(s, email, userId, k) ==
    /\ sends[s].pc = "idle"
    /\ request.n < MaxRequests
    /\ Len(two_factor_codes) + Cardinality(InflightSends) < MaxCodes
    /\ IF email = "" \/ userId = ""
       THEN /\ request' = Handled("send", [userId |-> userId, email |-> email])
            /\ response' = [status |-> 400, delivered |-> FALSE]
            /\ UNCHANGED <<two_factor_codes, sends>>
       ELSE /\ two_factor_codes' = Invalidate(two_factor_codes, userId)
            /\ sends' = [sends EXCEPT ![s] = [pc |-> "insert", userId |-> userId,
                                              email |-> email,
                                              code |-> generateCode(k)]]
            /\ UNCHANGED <<request, response>>
    /\ UNCHANGED <<now, fraudVars, authVars, verifies, genVars, admin_calls, clientVars>>

\* The rest of the request: the INSERT, the e-mail and the response.
SendInsert(s, insertOk, mail) ==
    /\ sends[s].pc = "insert"
    /\ request' = Handled("send", [userId |-> sends[s].userId,
                                   email |-> sends[s].email])
    /\ IF ~insertOk
       THEN /\ UNCHANGED two_factor_codes
            /\ response' = [status |-> 500, delivered |-> FALSE]
       ELSE /\ two_factor_codes' =
                   InsertCode(two_factor_codes, sends[s].userId, sends[s].email,
                              sends[s].code, now)
            /\ response' = SendResponse(mail)
    /\ sends' = [sends EXCEPT ![s] = [pc |-> "idle"]]
    /\ UNCHANGED <<now, fraudVars, authVars, verifies, genVars, admin_calls, clientVars>>

OtpSamples == {0, 1}
OtpUserIds == Users \cup {""}
OtpEmails == {"", "u1"}
OtpCodes == {generateCode(k) : k \in OtpSamples} \cup {NoCode}
OtpSteps == {5}

InitOtp ==
    /\ now = 0
    /\ orders = <<>>
    /\ fraud_flags = <<>>
    /\ http_request_queue = <<>>
    /\ transaction_audit = <<>>
    /\ order_txns = NoTxns
    /\ InitClient
    /\ user_roles = handle_new_user_roles
    /\ profiles = handle_new_user_profiles
    /\ two_factor_codes = <<>>
    /\ sends = NoSends
    /\ verifies = NoVerifies
    /\ admin_calls = NoCalls
    /\ request = NoRequest
    /\ response = NoResponse
    /\ gen_rand = 0
    /\ gen_code = <<>>

\* Requests are handled one after another.
NextOtp ==
    \/ \E email \in OtpEmails, userId \in OtpUserIds, k \in OtpSamples,
          insertOk \in BOOLEAN, mail \in MailOutcomes :
          send_2fa_code(email, userId, k, insertOk, mail)
    \/ \E userId \in OtpUserIds, code \in OtpCodes, fetchOk \in BOOLEAN :
          verify_2fa_code(userId, code, fetchOk)
    \/ \E d \in OtpSteps : ClockAdvance(d)

SpecOtp == InitOtp /\ [][NextOtp]_vars

\* The steps of concurrent send-2fa-code requests interleave.
NextOtpRace ==
    \/ \E s \in DOMAIN sends, email \in OtpEmails, userId \in Users,
          k \in OtpSamples : SendInvalidate(s, email, userId, k)
    \/ \E s \in DOMAIN sends, insertOk \in BOOLEAN, mail \in {"sent", "throws"} :
          SendInsert(s, insertOk, mail)
    \/ \E userId \in Users, code \in OtpCodes :
          verify_2fa_code(userId, code, TRUE)
    \/ \E d \in OtpSteps : ClockAdvance(d)

SpecOtpRace == InitOtp /\ [][NextOtpRace]_vars

(***************************************************************************)
(* Properties of the two-factor codes                                      *)
(***************************************************************************)
CodeRows == 1..Len(two_factor_codes)

RowsOf(u) == {i \in CodeRows : two_factor_codes[i].user_id = u}

Usable(i) == ~two_factor_codes[i].used /\ two_factor_codes[i].expires_at > now

\* C5: when requests are handled one after another, every user has at most
\* one code row that is unused and unexpired, and every row of a user except
\* the newest one is marked used.
C5_OneUsableCode ==
    \A u \in Users :
        /\ Cardinality({i \in RowsOf(u) : Usable(i)}) <= 1
        /\ \A i \in RowsOf(u) : \A j \in RowsOf(u) :
               i < j => two_factor_codes[i].used

\* A user who never verified a code has an older row that a later issuance
\* marked used, and a newest row that is usable.
C5_Witness ==
    \E u \in Users :
        /\ ~profiles[u].two_factor_enabled
        /\ \E i \in RowsOf(u) : \E j \in RowsOf(u) :
               /\ i < j
               /\ two_factor_codes[i].used
               /\ two_factor_codes[i].expires_at > now
               /\ Usable(j)

VerifyStep == request'.kind = "verify" /\ request'.n = request.n + 1

\* C6: a verification that directly follows a successful verification of the
\* same (userId, code), with no code issued in between, returns valid:false.
C6_SingleUse ==
    [][(/\ request.kind = "verify"
        /\ response.valid
        /\ VerifyStep
        /\ request'.userId = request.userId
        /\ request'.code = request.code)
       => ~response'.valid]_vars

\* C7: every code row expires 10 minutes after its creation, and a
\* verification evaluated when every matching unused row has expires_at <= now
\* returns valid:false.
C7_Expiry ==
    /\ [](\A i \in CodeRows :
            two_factor_codes[i].expires_at = two_factor_codes[i].created_at + 10)
    /\ [][(/\ VerifyStep
           /\ \A i \in CodeRows :
                 (/\ two_factor_codes[i].user_id = request'.userId
                  /\ two_factor_codes[i].code = request'.code
                  /\ ~two_factor_codes[i].used)
                 => now >= two_factor_codes[i].expires_at)
          => ~response'.valid]_vars

\* A verification was refused at the very minute at which the matching unused
\* row expired.
C7_Witness ==
    /\ request.kind = "verify"
    /\ response.status = 200
    /\ ~response.valid
    /\ \E i \in CodeRows :
          /\ two_factor_codes[i].user_id = request.userId
          /\ two_factor_codes[i].code = request.code
          /\ ~two_factor_codes[i].used
          /\ two_factor_codes[i].expires_at = now

MatchingRows(userId, code) ==
    {i \in CodeRows : /\ two_factor_codes[i].user_id = userId
                      /\ two_factor_codes[i].code = code}

\* The rows the claim names: user_id, code, used = false, expires_at later
\* than the time of the request.
ValidRows(userId, code) ==
    {i \in MatchingRows(userId, code) : Usable(i)}

WellFormed(req) == req.userId # "" /\ req.code # NoCode

\* C17: a verification whose lookup does not fail (no 500) returns valid:true
\* exactly when a row with the given user_id and code is unused and unexpired;
\* on valid:true one such row with the latest created_at becomes used, the
\* user's profile gets two_factor_enabled and last_login_at = now and nothing
\* else changes; on valid:false no code row and no profile changes.
C17_VerifyOutcome ==
    [][VerifyStep =>
         LET userId == request'.userId
             rows == ValidRows(userId, request'.code)
         IN  /\ (WellFormed(request') /\ response'.status # 500)
                   => (response'.valid <=> rows # {})
             /\ response'.valid =>
                   /\ \E i \in rows :
                         /\ \A j \in rows : two_factor_codes[j].created_at
                                                <= two_factor_codes[i].created_at
                         /\ two_factor_codes' =
                               [two_factor_codes EXCEPT ![i].used = TRUE]
                   /\ \A u \in Users :
                         profiles'[u] =
                            IF u = userId
                            THEN [profiles[u] EXCEPT !.two_factor_enabled = TRUE,
                                                     !.last_login_at = now]
                            ELSE profiles[u]
             /\ ~response'.valid => UNCHANGED <<two_factor_codes, profiles>>]_vars

\* After earlier requests a correct, unexpired code was accepted: its row is
\* used and the profile records the login.
C17_Witness ==
    /\ request.kind = "verify"
    /\ request.n >= 3
    /\ response.valid
    /\ request.userId \in Users
    /\ profiles[request.userId].two_factor_enabled
    /\ profiles[request.userId].last_login_at = now
    /\ now > 0
    /\ \E i \in MatchingRows(request.userId, request.code) :
          two_factor_codes[i].used /\ two_factor_codes[i].expires_at > now

\* C18: a well-formed verification that finds no unused unexpired row is
\* answered with one and the same response (200, valid:false, "Invalid or
\* expired verification code"), whether the code is wrong, was used, has
\* expired or the user has no rows.
C18_UniformRejection ==
    [][(/\ VerifyStep
        /\ WellFormed(request')
        /\ response'.status # 500
        /\ ValidRows(request'.userId, request'.code) = {})
       => response' = [status |-> 200, valid |-> FALSE,
                       error |-> "Invalid or expired verification code"]]_vars

\* The code of an expired row was refused while another user has no rows at
\* all.
C18_Witness ==
    /\ request.kind = "verify"
    /\ response = [status |-> 200, valid |-> FALSE,
                   error |-> "Invalid or expired verification code"]
    /\ \E i \in MatchingRows(request.userId, request.code) :
          ~two_factor_codes[i].used /\ two_factor_codes[i].expires_at <= now
    /\ \E u \in Users : RowsOf(u) = {}

\* C19: a verification succeeds only on a row issued for the userId of the
\* request, and every code row that send-2fa-code stores, and so every code
\* that can verify for a user, was dispatched to the email address of that
\* user's profile.
C19_Binding ==
    [][/\ (VerifyStep /\ response'.valid) =>
            \E i \in ValidRows(request'.userId, request'.code) :
                /\ two_factor_codes[i].user_id = request'.userId
                /\ two_factor_codes'[i].used
       /\ \A i \in 1..Len(two_factor_codes') :
             (/\ ~two_factor_codes'[i].used
              /\ two_factor_codes'[i].user_id \in Users)
             => two_factor_codes'[i].email =
                   profiles'[two_factor_codes'[i].user_id].email]_vars

(***************************************************************************)
(* admin-actions gateway                                                   *)
(***************************************************************************)
NoHeader == "none"
BadToken == "invalid"
GhostUser == "ghost"

\* supabaseUser.auth.getUser(): the user of a valid bearer token, if any.
getUser(authHeader) == IF authHeader \in Users THEN authHeader ELSE NoUser

RowsOfUser(roles, u) == {row \in roles : row.user_id = u}

CallerIsAdmin_Unchecked(roles, caller) == TRUE

\* .from("user_roles").select("role").eq("user_id", user.id).single():
\* an error unless exactly one row; then roleData.role must be "admin".
CallerIsAdmin(roles, caller) ==
    /\ Cardinality(RowsOfUser(roles, caller)) = 1
    /\ \A row \in RowsOfUser(roles, caller) : row.role = "admin"

SelfRoleChange_Allowed(action, targetUserId, caller) == FALSE

SelfRoleChange(action, targetUserId, caller) ==
    action = "change_role" /\ targetUserId = caller

\* An insert where the update should be.
ChangeRole_AlwaysInsert(roles, targetUserId, newRole) ==
    roles \cup {[user_id |-> targetUserId, role |-> newRole]}

\* change_role: maybeSingle() finds the target's row and it is updated;
\* otherwise a row is inserted.
ChangeRole(roles, targetUserId, newRole) ==
    IF Cardinality(RowsOfUser(roles, targetUserId)) = 1
    THEN {IF row.user_id = targetUserId THEN [row EXCEPT !.role = newRole] ELSE row :
             row \in roles}
    ELSE roles \cup {[user_id |-> targetUserId, role |-> newRole]}

\* The INSERT fails on the foreign key to auth.users or on UNIQUE (user_id, role).
ChangeRoleFails(roles, targetUserId, newRole) ==
    /\ Cardinality(RowsOfUser(roles, targetUserId)) # 1
    /\ \/ targetUserId \notin Users
       \/ [user_id |-> targetUserId, role |-> newRole] \in roles

UpdateProfile_Counting(profs, targetUserId, locked, resetAttempts) ==
    [u \in DOMAIN profs |->
        IF u = targetUserId
        THEN [profs[u] EXCEPT !.account_locked = locked,
                              !.failed_login_attempts =
                                  IF resetAttempts THEN 0 ELSE @ + 1]
        ELSE profs[u]]

\* An update without its WHERE clause.
UpdateProfile_AllRows(profs, targetUserId, locked, resetAttempts) ==
    [u \in DOMAIN profs |->
        [profs[u] EXCEPT !.account_locked = locked,
                         !.failed_login_attempts = IF resetAttempts THEN 0 ELSE @]]

UpdateProfile(profs, targetUserId, locked, resetAttempts) ==
    [u \in DOMAIN profs |->
        IF u = targetUserId
        THEN [profs[u] EXCEPT !.account_locked = locked,
                              !.failed_login_attempts =
                                  IF resetAttempts THEN 0 ELSE @]
        ELSE profs[u]]

Respond(status) == response' = [status |-> status]

\* The request repeats the one answered just before: same caller, same body.
Repeats(authHeader, body) ==
    /\ request.kind = "admin"
    /\ request.auth = authHeader
    /\ \A k \in DOMAIN body : request[k] = body[k]

\* One admin-actions request, run to completion.  The field again records
\* that the request repeats its predecessor and what that one was answered.
admin_actions(authHeader, body) ==
    /\ request.n < MaxAdminRequests
    /\ request' = Handled("admin",
                     [auth |-> authHeader,
                      again |-> IF Repeats(authHeader, body)
                                THEN response.status ELSE 0] @@ body)
    /\ LET caller == getUser(authHeader)
       IN  IF authHeader = NoHeader \/ caller = NoUser
           THEN Respond(401) /\ UNCHANGED <<user_roles, profiles>>
           ELSE IF ~CallerIsAdmin(user_roles, caller)
           THEN Respond(403) /\ UNCHANGED <<user_roles, profiles>>
           ELSE IF ~body.json
           THEN Respond(500) /\ UNCHANGED <<user_roles, profiles>>
           ELSE IF SelfRoleChange(body.action, body.targetUserId, caller)
           THEN Respond(400) /\ UNCHANGED <<user_roles, profiles>>
           ELSE IF body.action = "change_role"
           THEN IF body.newRole = ""
                THEN Respond(400) /\ UNCHANGED <<user_roles, profiles>>
                ELSE IF ChangeRoleFails(user_roles, body.targetUserId, body.newRole)
                THEN Respond(500) /\ UNCHANGED <<user_roles, profiles>>
                ELSE /\ user_roles' =
                            ChangeRole(user_roles, body.targetUserId, body.newRole)
                     /\ Respond(200)
                     /\ UNCHANGED profiles
           ELSE IF body.action = "unlock_account"
           THEN /\ profiles' = UpdateProfile(profiles, body.targetUserId, FALSE, TRUE)
                /\ Respond(200)
                /\ UNCHANGED user_roles
           ELSE IF body.action = "lock_account"
           THEN /\ profiles' = UpdateProfile(profiles, body.targetUserId, TRUE, FALSE)
                /\ Respond(200)
                /\ UNCHANGED user_roles
           ELSE Respond(400) /\ UNCHANGED <<user_roles, profiles>>
    /\ UNCHANGED <<now, fraudVars, otpVars, genVars, admin_calls, clientVars>>

AuthHeaders == {NoHeader, BadToken} \cup Users
AdminActions == {"change_role", "unlock_account", "lock_account", "delete_user"}
AdminTargets == Users \cup {GhostUser}
AdminBody(action, targetUserId, newRole, role) ==
    [json |-> TRUE, action |-> action, targetUserId |-> targetUserId,
     newRole |-> newRole, role |-> role]
MalformedBody == [AdminBody("", "", "", "") EXCEPT !.json = FALSE]
\* role is a field the handler does not read: a client-side role claim.
AdminBodies ==
    {AdminBody("change_role", t, r, c) :
        t \in AdminTargets, r \in Roles \cup {""}, c \in {"admin", ""}}
    \cup {AdminBody(a, t, "", "") :
        a \in AdminActions \ {"change_role"}, t \in AdminTargets}
    \cup {MalformedBody}

\* Profiles as the login flow may have left them.
AdminProfiles ==
    {[u \in Users |-> [NewProfile(u) EXCEPT !.account_locked = f[u],
                                           !.failed_login_attempts =
                                               IF f[u] THEN 5 ELSE 0]] :
        f \in [Users -> BOOLEAN]}

InitAdmin ==
    /\ now = 0
    /\ orders = <<>>
    /\ fraud_flags = <<>>
    /\ http_request_queue = <<>>
    /\ transaction_audit = <<>>
    /\ order_txns = NoTxns
    /\ InitClient
    /\ user_roles \in {RoleRows(f) : f \in [Users -> Roles]}
    /\ profiles \in AdminProfiles
    /\ two_factor_codes = <<>>
    /\ sends = NoSends
    /\ verifies = NoVerifies
    /\ admin_calls = NoCalls
    /\ request = NoRequest
    /\ response = NoResponse
    /\ gen_rand = 0
    /\ gen_code = <<>>

NextAdmin ==
    \E authHeader \in AuthHeaders, body \in AdminBodies :
        admin_actions(authHeader, body)

SpecAdmin == InitAdmin /\ [][NextAdmin]_vars

(***************************************************************************)
(* Properties of the admin-actions gateway                                 *)
(***************************************************************************)
AdminStep == request'.kind = "admin" /\ request'.n = request.n + 1

\* C9: a request without a valid bearer credential gets 401 and one whose
\* caller is not an admin in user_roles gets 403, whatever the body says, and
\* user_roles and profiles change only in a request of a caller whose role in
\* user_roles is admin.
C9_GatewayAuthorization ==
    [][AdminStep =>
         LET authenticated == request'.auth \in Users
             admin == authenticated /\ has_role(user_roles, request'.auth, "admin")
         IN  /\ (response'.status = 401) <=> ~authenticated
             /\ (response'.status = 403) <=> (authenticated /\ ~admin)
             /\ ~admin => UNCHANGED <<user_roles, profiles>>]_vars

\* A customer whose body claims the admin role was answered 403 after an
\* admin's request had changed a role.
C9_Witness ==
    /\ request.kind = "admin"
    /\ request.n > 1
    /\ request.auth \in Users
    /\ request.role = "admin"
    /\ request.action = "change_role"
    /\ request.newRole = "admin"
    /\ has_role(user_roles, request.auth, "customer")
    /\ response.status = 403

\* C10: a change_role request of an admin on the admin's own id is answered
\* 400 for every newRole and leaves user_roles unchanged.
C10_NoSelfRoleChange ==
    [][(/\ AdminStep
        /\ request'.auth \in Users
        /\ has_role(user_roles, request'.auth, "admin")
        /\ request'.action = "change_role"
        /\ request'.targetUserId = request'.auth)
       => (response'.status = 400 /\ UNCHANGED user_roles)]_vars

\* An admin asked to become a customer and was refused: the admin row stays.
C10_Witness ==
    /\ request.kind = "admin"
    /\ request.action = "change_role"
    /\ request.targetUserId = request.auth
    /\ request.newRole = "customer"
    /\ has_role(user_roles, request.auth, "admin")
    /\ response.status = 400

C11_WitnessRole ==
    /\ request.kind = "admin"
    /\ request.action = "change_role"
    /\ request.again = 200
    /\ response.status = 200
    /\ has_role(user_roles, request.targetUserId, request.newRole)

\* C20: a lock_account request of an admin on the admin's own id is rejected
\* (not answered 200) and leaves the caller's account_locked unchanged.
C20_NoSelfLock ==
    [][(/\ AdminStep
        /\ request'.auth \in Users
        /\ has_role(user_roles, request'.auth, "admin")
        /\ request'.action = "lock_account"
        /\ request'.targetUserId = request'.auth)
       => /\ response'.status # 200
          /\ profiles'[request'.auth].account_locked =
                profiles[request'.auth].account_locked]_vars

\* C21: from one user_roles row per user, every user keeps exactly one row
\* after any sequence of admin-actions requests handled one after another, and
\* a change_role answered 200 leaves the target with the single row
\* (target, newRole) without adding or removing a row.
C21_OneRolePerUser ==
    /\ [](\A u \in Users : Cardinality(RowsOfUser(user_roles, u)) = 1)
    /\ [][(/\ AdminStep
           /\ request'.action = "change_role"
           /\ response'.status = 200)
          => /\ RowsOfUser(user_roles', request'.targetUserId) =
                   {[user_id |-> request'.targetUserId, role |-> request'.newRole]}
             /\ Cardinality(user_roles') = Cardinality(user_roles)
             /\ \A u \in Users \ {request'.targetUserId} :
                   RowsOfUser(user_roles', u) = RowsOfUser(user_roles, u)]_vars

\* After earlier requests a role was changed to security_personnel.
C21_Witness ==
    /\ request.kind = "admin"
    /\ request.n >= 2
    /\ request.action = "change_role"
    /\ response.status = 200
    /\ RowsOfUser(user_roles, request.targetUserId) =
          {[user_id |-> request.targetUserId, role |-> "security_personnel"]}

\* C22: a lock_account answered 200 sets account_locked of the target's
\* profile and nothing else; an unlock_account answered 200 clears
\* account_locked and failed_login_attempts of the target's profile and
\* nothing else; other profiles and user_roles are unchanged.
C22_LockFrame ==
    [][(/\ AdminStep
        /\ request'.action \in {"lock_account", "unlock_account"}
        /\ response'.status = 200)
       => /\ UNCHANGED user_roles
          /\ \A u \in Users :
                profiles'[u] =
                   IF u # request'.targetUserId THEN profiles[u]
                   ELSE IF request'.action = "lock_account"
                   THEN [profiles[u] EXCEPT !.account_locked = TRUE]
                   ELSE [profiles[u] EXCEPT !.account_locked = FALSE,
                                            !.failed_login_attempts = 0]]_vars

\* A locked account with failed attempts on record was unlocked.
C22_Witness ==
    /\ request.kind = "admin"
    /\ request.action = "unlock_account"
    /\ response.status = 200
    /\ request.targetUserId \in Users
    /\ ~profiles[request.targetUserId].account_locked
    /\ profiles[request.targetUserId].failed_login_attempts = 0
    /\ \E u \in Users : profiles[u].account_locked
                          /\ profiles[u].failed_login_attempts = 5

(***************************************************************************)
(* mpesa-callback webhook                                                  *)
(***************************************************************************)
MaxCallbacks == 3

Accepted == [ResultCode |-> 0, ResultDesc |-> "Accepted"]
NoBody == [empty |-> TRUE]

\* new Response(JSON.stringify({ResultCode: 0, ResultDesc: "Accepted"})):
\* the status of a Response built without one is 200.
Acknowledge(outcome) == [status |-> 200, body |-> Accepted, log |-> outcome]

CallbackCatch_Error == [status |-> 500, body |-> NoBody, log |-> "error"]

\* catch (error): "Still return success to M-Pesa to acknowledge receipt".
CallbackCatch == Acknowledge("error")

\* callbackData.Body?.stkCallback: reading Body of null throws; a number, or
\* an object without Body or without stkCallback, gives undefined.
StkCallbackThrows(p) == p.json = "null"
StkCallbackPresent(p) == p.json = "object" /\ p.stk = "present"

\* ResultCode === 0: a number equal to 0.
PaymentSuccessful(p) == p.codeIsNumber /\ p.ResultCode = 0

\* (CallbackMetadata?.Item || []).find(item => item.Name === ...): throws when
\* Item is not an array and when an item is null.
MetadataThrows(p) == p.Item \in {"object", "nullItem"}

\* The body of the try block, for a request whose method is not OPTIONS.
CallbackTry(p, envOk) ==
    IF p.json = "invalid" THEN CallbackCatch
    ELSE IF ~envOk THEN CallbackCatch
    ELSE IF StkCallbackThrows(p) THEN CallbackCatch
    ELSE IF ~StkCallbackPresent(p) THEN Acknowledge("invalid")
    ELSE IF PaymentSuccessful(p)
         THEN IF MetadataThrows(p) THEN CallbackCatch
              ELSE Acknowledge("successful")
    ELSE Acknowledge("failed")

\* One request to mpesa-callback, run to completion.
mpesa_callback(method, p, envOk) ==
    /\ request.n < MaxCallbacks
    /\ request' = Handled("mpesa", [method |-> method, envOk |-> envOk] @@ p)
    /\ response' = IF method = "OPTIONS"
                   THEN [status |-> 200, body |-> NoBody, log |-> "preflight"]
                   ELSE CallbackTry(p, envOk)
    /\ UNCHANGED <<now, fraudVars, authVars, otpVars, genVars, admin_calls, clientVars>>

CallbackPayload(json, stk, code, isNumber, item) ==
    [json |-> json, stk |-> stk, ResultCode |-> code, codeIsNumber |-> isNumber,
     Item |-> item]
CallbackPayloads ==
    {CallbackPayload(j, "noBody", 0, TRUE, "missing") :
        j \in {"invalid", "null", "number"}}
    \cup {CallbackPayload("object", k, 0, TRUE, "missing") :
        k \in {"noBody", "noStkCallback"}}
    \cup {CallbackPayload("object", "present", c, b, i) :
        c \in {0, 1, 1032}, b \in BOOLEAN,
        i \in {"missing", "array", "object", "nullItem"}}

InitMpesa ==
    /\ now = 0
    /\ orders = <<>>
    /\ fraud_flags = <<>>
    /\ http_request_queue = <<>>
    /\ transaction_audit = <<>>
    /\ order_txns = NoTxns
    /\ InitClient
    /\ user_roles = handle_new_user_roles
    /\ profiles = handle_new_user_profiles
    /\ two_factor_codes = <<>>
    /\ sends = NoSends
    /\ verifies = NoVerifies
    /\ admin_calls = NoCalls
    /\ request = NoRequest
    /\ response = NoResponse
    /\ gen_rand = 0
    /\ gen_code = <<>>

NextMpesa ==
    \E method \in {"POST", "OPTIONS"}, p \in CallbackPayloads, envOk \in BOOLEAN :
        mpesa_callback(method, p, envOk)

SpecMpesa == InitMpesa /\ [][NextMpesa]_vars

\* C12: every POST to mpesa-callback is answered with status 200 and the body
\* {ResultCode: 0, ResultDesc: "Accepted"}, whatever the payload and whatever
\* is thrown while it is handled.
C12_AlwaysAccepted ==
    (request.kind = "mpesa" /\ request.method = "POST")
        => (response.status = 200 /\ response.body = Accepted)

\* A POST whose body is not JSON went through the catch block and was
\* acknowledged, after earlier callbacks.
C12_Witness ==
    /\ request.kind = "mpesa"
    /\ request.method = "POST"
    /\ request.n = MaxCallbacks
    /\ request.json = "invalid"
    /\ response.log = "error"
    /\ response.body = Accepted

(***************************************************************************)
(* Notification dispatch: the request queue worker and send-fraud-alert    *)
(***************************************************************************)
MaxNotifyOrders == 3

StaffRoles == {"admin", "security_personnel"}

\* user_roles rows with role admin or security_personnel, then the emails of
\* their profiles: .not("email", "is", null) and filter(Boolean).
AdminUserIds(roles) == {row.user_id : row \in {r \in roles : r.role \in StaffRoles}}
AdminEmails(roles, profs) ==
    {profs[u].email : u \in AdminUserIds(roles) \cap DOMAIN profs} \ {""}

\* The handler reaches resend.emails.send (once: there is no loop around it).
AlertSubmitted(severity, roles, profs, rolesOk, profilesOk) ==
    /\ severity = "high"
    /\ rolesOk
    /\ AdminUserIds(roles) # {}
    /\ profilesOk
    /\ AdminEmails(roles, profs) # {}

\* A handler that checked the error field of the relay's result.
send_fraud_alert_Checked(severity, roles, profs, rolesOk, profilesOk, mail) ==
    IF AlertSubmitted(severity, roles, profs, rolesOk, profilesOk)
    THEN IF mail = "sent" THEN 200 ELSE 500
    ELSE IF severity = "high" /\ (~rolesOk \/ (AdminUserIds(roles) # {} /\ ~profilesOk))
    THEN 500 ELSE 200

\* send-fraud-alert: the status of its Response.  Only a throw of
\* resend.emails.send reaches the catch block; a rejected message is returned
\* in the result and answered 200.
send_fraud_alert(severity, roles, profs, rolesOk, profilesOk, mail) ==
    LET adminUserIds == AdminUserIds(roles)
        adminEmails == AdminEmails(roles, profs)
    IN  IF severity # "high" THEN 200
        ELSE IF ~rolesOk THEN 500
        ELSE IF adminUserIds = {} THEN 200
        ELSE IF ~profilesOk THEN 500
        ELSE IF adminEmails = {} THEN 200
        ELSE IF mail = "throws" THEN 500
        ELSE 200

QueuedRequests == {i \in 1..Len(http_request_queue) :
                      http_request_queue[i].status = "queued"}

\* The background worker takes a queued request and posts it: the endpoint is
\* unreachable, or send-fraud-alert answers.  Only the request's outcome is
\* recorded.
net_worker(i, endpoint, rolesOk, profilesOk, mail) ==
    /\ i \in QueuedRequests
    /\ \A j \in QueuedRequests : i <= j
    /\ http_request_queue' =
         [http_request_queue EXCEPT ![i].status =
             IF endpoint # "up" THEN "failed"
             ELSE IF send_fraud_alert(fraud_flags[http_request_queue[i].flagId].severity,
                                      user_roles, profiles,
                                      rolesOk, profilesOk, mail) = 200
                  THEN "200" ELSE "500"]
    /\ UNCHANGED <<now, orders, fraud_flags, transaction_audit, order_txns,
                   authVars, otpVars, httpVars,
                   genVars, admin_calls, clientVars>>

Endpoints == {"up", "down"}
NotifyAmounts == {400, 600}

InitNotify ==
    /\ now = 0
    /\ orders = <<>>
    /\ fraud_flags = <<>>
    /\ http_request_queue = <<>>
    /\ transaction_audit = <<>>
    /\ order_txns = NoTxns
    /\ InitClient
    /\ user_roles \in {handle_new_user_roles,
                       RoleRows([u \in Users |-> IF u = "u1" THEN "admin" ELSE "customer"])}
    /\ profiles = handle_new_user_profiles
    /\ two_factor_codes = <<>>
    /\ sends = NoSends
    /\ verifies = NoVerifies
    /\ admin_calls = NoCalls
    /\ request = NoRequest
    /\ response = NoResponse
    /\ gen_rand = 0
    /\ gen_code = <<>>

NextNotify ==
    \/ \E u \in Users, amt \in NotifyAmounts, endpoint \in Endpoints :
          Len(orders) < MaxNotifyOrders /\ InsertOrder(u, amt, endpoint)
    \/ \E i \in 1..(2 * MaxNotifyOrders), endpoint \in Endpoints,
          rolesOk \in BOOLEAN, profilesOk \in BOOLEAN, mail \in {"sent", "throws"} :
          net_worker(i, endpoint, rolesOk, profilesOk, mail)

SpecNotify == InitNotify /\ [][NextNotify]_vars

OrderStep == request'.kind = "order" /\ request'.n = request.n + 1

IsPrefix(s, t) == Len(s) <= Len(t) /\ SubSeq(t, 1, Len(s)) = s

HighFlagsOf(oid) == {i \in 1..Len(fraud_flags) : /\ fraud_flags[i].order_id = oid
                                                 /\ fraud_flags[i].severity = "high"}

\* C13: an order insert is committed with its flags whether or not the
\* notification endpoint can be reached: the insert succeeds, the order row and
\* one notification request per high flag are stored; and the later outcome of
\* a notification (endpoint unreachable, send-fraud-alert answering 500 or 200)
\* changes no order and no flag.
C13_NotifyDetached ==
    [][/\ OrderStep =>
            /\ response'.status = 201
            /\ orders' # orders /\ IsPrefix(orders, orders')
            /\ IsPrefix(fraud_flags, fraud_flags')
            /\ Len(http_request_queue') - Len(http_request_queue) =
                  Cardinality({i \in 1..Len(fraud_flags') :
                                  /\ i > Len(fraud_flags)
                                  /\ fraud_flags'[i].severity = "high"})
       /\ ~OrderStep => UNCHANGED <<orders, fraud_flags>>]_vars

\* An order inserted while the endpoint was down has a high flag, and the
\* notification of that flag failed afterwards; another notification was
\* answered 500.
C13_Witness ==
    /\ \E i \in 1..Len(http_request_queue) :
          /\ http_request_queue[i].status = "failed"
          /\ \E oid \in 1..Len(orders) :
                http_request_queue[i].flagId \in HighFlagsOf(oid)
    /\ \E i \in 1..Len(http_request_queue) : http_request_queue[i].status = "500"
    /\ request.kind = "order"
    /\ request.endpoint = "down"
    /\ response.status = 201
    /\ HighFlagsOf(Len(orders)) # {}

(***************************************************************************)
(* Rule independence                                                       *)
(***************************************************************************)
RuleAmounts == {100, 200, 600}

NextRules ==
    \/ \E u \in Users, amt \in RuleAmounts : InsertOrder(u, amt, "up")
    \/ \E d \in Gaps : Tick(d)

SpecRules == InitFraud /\ [][NextRules]_vars

FlagTypes == {"velocity", "high_value", "daily_limit"}

AllFlagsOf(oid) == {i \in 1..Len(fraud_flags) : fraud_flags[i].order_id = oid}

\* The flag types whose rule condition holds for order oid.
RulesHolding(oid) ==
    {ft \in FlagTypes :
        \/ ft = "velocity" /\ HourCount(oid) >= 3
        \/ ft = "high_value" /\ orders[oid].total_amount > 500
        \/ ft = "daily_limit" /\ DayTotal(oid) > 1000}

SeverityOf(ft) == IF ft = "high_value" THEN "medium" ELSE "high"

\* C14: the flags of an order are exactly one flag per rule whose own
\* condition holds, with that rule's severity, whatever the other rules did;
\* an order has between 0 and 3 flags.
C14_RuleIndependence ==
    \A oid \in OrderIds :
        /\ \A ft \in FlagTypes :
              Cardinality(FlagsOf(oid, ft)) = IF ft \in RulesHolding(oid) THEN 1 ELSE 0
        /\ \A i \in AllFlagsOf(oid) :
              /\ fraud_flags[i].flag_type \in FlagTypes
              /\ fraud_flags[i].severity = SeverityOf(fraud_flags[i].flag_type)
        /\ Cardinality(AllFlagsOf(oid)) = Cardinality(RulesHolding(oid))
        /\ Cardinality(AllFlagsOf(oid)) \in 0..3

\* A first order of 600 has the high_value flag alone, and the same user's 4th
\* order of the hour, of amount 100, brings the day's total to 1100 and has the
\* velocity and daily_limit flags and no other.
C14_Witness ==
    \E a \in OrderIds, b \in OrderIds :
        /\ a < b
        /\ orders[a].user_id = orders[b].user_id
        /\ orders[a].total_amount = 600
        /\ DayTotal(a) = 600
        /\ HourCount(a) = 0
        /\ {fraud_flags[i].flag_type : i \in AllFlagsOf(a)} = {"high_value"}
        /\ Cardinality(AllFlagsOf(a)) = 1
        /\ orders[b].total_amount <= 500
        /\ HourCount(b) = 3
        /\ DayTotal(b) = 1100
        /\ {fraud_flags[i].flag_type : i \in AllFlagsOf(b)} = {"velocity", "daily_limit"}
        /\ Cardinality(AllFlagsOf(b)) = 2

\* An order that trips all three rules has three flags.
C14_WitnessThree ==
    \E oid \in OrderIds : Cardinality(AllFlagsOf(oid)) = 3

(***************************************************************************)
(* The Auth page: login, signup and the 2fa step                           *)
(***************************************************************************)
MaxAuthRequests == 4

\* send2FACode: true unless functions.invoke reports an error (a status
\* other than 2xx) or throws.
send2FACode(resp) == resp.status = 200

\* The effect of [navigate, authStep]: getSession, and navigate("/") when the
\* browser holds a session.  It runs after mounting and after every change of
\* authStep.
checkSession ==
    /\ effect
    /\ location = "/auth"
    /\ effect' = FALSE
    /\ location' = IF session # NoUser THEN "/" ELSE location
    /\ UNCHANGED <<authStep, session, verified, pendingUserId>>
    /\ UNCHANGED <<now, fraudVars, authVars, otpVars, httpVars, genVars, admin_calls>>

\* handleLogin for the account of `email`: signInWithPassword, then the code.
\* A user's id and email address are both written u.
handleLogin(email, passwordOk, k, insertOk, mail) ==
    /\ location = "/auth"
    /\ authStep = "credentials"
    /\ request.n < MaxAuthRequests
    /\ Len(two_factor_codes) < MaxCodes
    /\ request' = Handled("login", [email |-> email, passwordOk |-> passwordOk])
    /\ IF ~passwordOk
       THEN /\ response' = [status |-> 401, delivered |-> FALSE]
            /\ UNCHANGED <<two_factor_codes, clientVars>>
       ELSE LET r == Send2FA(two_factor_codes, email, email, k, insertOk, mail, now)
            IN  /\ two_factor_codes' = r.codes
                /\ response' = r.response
                /\ pendingUserId' = email
                /\ verified' = FALSE
                /\ IF send2FACode(r.response)
                   THEN /\ session' = email
                        /\ authStep' = "2fa"
                        /\ effect' = TRUE
                   ELSE /\ session' = NoUser
                        /\ UNCHANGED <<authStep, effect>>
                /\ UNCHANGED location
    /\ UNCHANGED <<now, fraudVars, authVars, sends, verifies, genVars, admin_calls>>

\* handleVerify2FA with a code of 6 characters.
handleVerify2FA(code, fetchOk) ==
    /\ location = "/auth"
    /\ authStep = "2fa"
    /\ request.n < MaxAuthRequests
    /\ code # NoCode
    /\ request' = Handled("verify", [userId |-> pendingUserId, code |-> code])
    /\ \E r \in Verify2FA(two_factor_codes, profiles, pendingUserId, code, fetchOk, now) :
          /\ two_factor_codes' = r.codes
          /\ profiles' = r.profiles
          /\ response' = r.response
          /\ IF r.response.status = 200 /\ r.response.valid
             THEN location' = "/" /\ verified' = TRUE
             ELSE UNCHANGED <<location, verified>>
    /\ UNCHANGED <<authStep, session, pendingUserId, effect>>
    /\ UNCHANGED <<now, fraudVars, user_roles, sends, verifies, genVars, admin_calls>>

\* handleResendCode once the cooldown has run out.
handleResendCode(k, insertOk, mail) ==
    /\ location = "/auth"
    /\ authStep = "2fa"
    /\ pendingUserId # NoUser
    /\ request.n < MaxAuthRequests
    /\ Len(two_factor_codes) < MaxCodes
    /\ request' = Handled("resend", [email |-> pendingUserId])
    /\ LET r == Send2FA(two_factor_codes, pendingUserId, pendingUserId, k,
                        insertOk, mail, now)
       IN  /\ two_factor_codes' = r.codes
           /\ response' = r.response
    /\ UNCHANGED <<now, fraudVars, authVars, sends, verifies, genVars, admin_calls, clientVars>>

handleBackToLogin ==
    /\ location = "/auth"
    /\ authStep = "2fa"
    /\ session' = NoUser
    /\ verified' = FALSE
    /\ authStep' = "credentials"
    /\ pendingUserId' = NoUser
    /\ effect' = TRUE
    /\ UNCHANGED <<location, now, fraudVars, authVars, otpVars, httpVars, genVars, admin_calls>>

\* handleSignup: signUp fails, or returns the user with or without a session
\* (without one when the address has to be confirmed first).
handleSignup(email, signUp, k, insertOk, mail) ==
    /\ location = "/auth"
    /\ authStep = "credentials"
    /\ request.n < MaxAuthRequests
    /\ Len(two_factor_codes) < MaxCodes
    /\ request' = Handled("signup", [email |-> email, signUp |-> signUp])
    /\ IF signUp = "error"
       THEN /\ response' = [status |-> 422, delivered |-> FALSE]
            /\ UNCHANGED <<two_factor_codes, clientVars>>
       ELSE LET r == Send2FA(two_factor_codes, email, email, k, insertOk, mail, now)
            IN  /\ two_factor_codes' = r.codes
                /\ response' = r.response
                /\ pendingUserId' = email
                /\ session' = IF signUp = "session" THEN email ELSE session
                /\ verified' = IF signUp = "session" THEN FALSE ELSE verified
                /\ IF send2FACode(r.response)
                   THEN /\ authStep' = "2fa"
                        /\ effect' = TRUE
                        /\ UNCHANGED location
                   ELSE /\ location' = "/"
                        /\ UNCHANGED <<authStep, effect>>
    /\ UNCHANGED <<now, fraudVars, authVars, sends, verifies, genVars, admin_calls>>

\* The user opens the Auth page again: the component mounts with its initial
\* state; the session stays in the browser.
openAuth ==
    /\ location = "/"
    /\ authStep' = "credentials"
    /\ pendingUserId' = NoUser
    /\ location' = "/auth"
    /\ effect' = TRUE
    /\ UNCHANGED <<session, verified>>
    /\ UNCHANGED <<now, fraudVars, authVars, otpVars, httpVars, genVars, admin_calls>>

AuthSamples == {0}
AuthCodes == {generateCode(k) : k \in {0, 1}}

InitAuth ==
    /\ now = 0
    /\ orders = <<>>
    /\ fraud_flags = <<>>
    /\ http_request_queue = <<>>
    /\ transaction_audit = <<>>
    /\ order_txns = NoTxns
    /\ InitClient
    /\ user_roles = handle_new_user_roles
    /\ profiles = handle_new_user_profiles
    /\ two_factor_codes = <<>>
    /\ sends = NoSends
    /\ verifies = NoVerifies
    /\ admin_calls = NoCalls
    /\ request = NoRequest
    /\ response = NoResponse
    /\ gen_rand = 0
    /\ gen_code = <<>>

NextAuth ==
    \/ checkSession
    \/ \E email \in Users, passwordOk \in BOOLEAN, k \in AuthSamples,
          insertOk \in BOOLEAN, mail \in MailOutcomes :
          handleLogin(email, passwordOk, k, insertOk, mail)
    \/ \E code \in AuthCodes, fetchOk \in BOOLEAN : handleVerify2FA(code, fetchOk)
    \/ \E k \in AuthSamples, insertOk \in BOOLEAN, mail \in MailOutcomes :
          handleResendCode(k, insertOk, mail)
    \/ handleBackToLogin
    \/ \E email \in Users, signUp \in {"error", "session", "unconfirmed"},
          k \in AuthSamples, insertOk \in BOOLEAN, mail \in MailOutcomes :
          handleSignup(email, signUp, k, insertOk, mail)
    \/ openAuth

SpecAuth == InitAuth /\ [][NextAuth]_vars

\* C15: the browser is in the application with a session only after a
\* verify-2fa-code call of the 2fa step returned valid:true for that session.
C15_LoginOrdering ==
    (location = "/" /\ session # NoUser) => verified

\* C16: when the password check of a login succeeds and the code is not
\* delivered, the session is signed out and the flow stays in the credentials
\* step.
C16_AbortOnDispatchFailure ==
    [][(/\ request'.kind = "login"
        /\ request'.n = request.n + 1
        /\ request'.passwordOk
        /\ ~response'.delivered)
       => (session' = NoUser /\ authStep' = "credentials")]_vars

(***************************************************************************)
(* send-fraud-alert called directly                                        *)
(***************************************************************************)
MaxAlerts == 2

\* One request to send-fraud-alert, run to completion.  submissions counts
\* the calls of resend.emails.send.
send_fraud_alert_handler(jsonOk, severity, rolesOk, profilesOk, mail) ==
    /\ request.n < MaxAlerts
    /\ request' = Handled("alert", [jsonOk |-> jsonOk, severity |-> severity,
                                    rolesOk |-> rolesOk, profilesOk |-> profilesOk,
                                    mail |-> mail])
    /\ response' =
         IF ~jsonOk THEN [status |-> 500, submissions |-> 0]
         ELSE [status |-> send_fraud_alert(severity, user_roles, profiles,
                                           rolesOk, profilesOk, mail),
               submissions |->
                   IF AlertSubmitted(severity, user_roles, profiles, rolesOk, profilesOk)
                   THEN 1 ELSE 0]
    /\ UNCHANGED <<now, fraudVars, authVars, otpVars, genVars, admin_calls, clientVars>>

AlertSeverities == {"high", "medium"}

\* Some profiles have no email.
AlertProfiles ==
    {[u \in Users |-> [NewProfile(u) EXCEPT !.email = IF u \in missing THEN "" ELSE u]] :
        missing \in SUBSET Users}

InitAlert ==
    /\ now = 0
    /\ orders = <<>>
    /\ fraud_flags = <<>>
    /\ http_request_queue = <<>>
    /\ transaction_audit = <<>>
    /\ order_txns = NoTxns
    /\ InitClient
    /\ user_roles \in {RoleRows(f) : f \in [Users -> Roles]}
    /\ profiles \in AlertProfiles
    /\ two_factor_codes = <<>>
    /\ sends = NoSends
    /\ verifies = NoVerifies
    /\ admin_calls = NoCalls
    /\ request = NoRequest
    /\ response = NoResponse
    /\ gen_rand = 0
    /\ gen_code = <<>>

NextAlert ==
    \E jsonOk \in BOOLEAN, severity \in AlertSeverities, rolesOk \in BOOLEAN,
       profilesOk \in BOOLEAN, mail \in MailOutcomes :
       send_fraud_alert_handler(jsonOk, severity, rolesOk, profilesOk, mail)

SpecAlert == InitAlert /\ [][NextAlert]_vars

AlertStep == request'.kind = "alert" /\ request'.n = request.n + 1

\* C23: send-fraud-alert submits an email, at most once, only for severity
\* high with a non-empty list of staff emails; for another severity, for no
\* staff or for no email it submits nothing and answers 200; and for a
\* well-formed request it answers 500 exactly when the role lookup, the profile
\* lookup or the submission to the relay fails.
C23_DispatcherOutcomes ==
    [][(AlertStep /\ request'.jsonOk) =>
         LET high == request'.severity = "high"
             staff == AdminUserIds(user_roles)
             emails == AdminEmails(user_roles, profiles)
             rolesFail == high /\ ~request'.rolesOk
             profilesFail == high /\ request'.rolesOk /\ staff # {}
                             /\ ~request'.profilesOk
             relayFail == response'.submissions > 0 /\ request'.mail # "sent"
         IN  /\ response'.submissions <= 1
             /\ response'.submissions = 1 => (high /\ emails # {})
             /\ ~high => (response'.submissions = 0 /\ response'.status = 200)
             /\ (high /\ request'.rolesOk /\ staff = {})
                   => (response'.submissions = 0 /\ response'.status = 200)
             /\ (high /\ request'.rolesOk /\ request'.profilesOk /\ emails = {})
                   => (response'.submissions = 0 /\ response'.status = 200)
             /\ (response'.status = 500)
                   <=> (rolesFail \/ profilesFail \/ relayFail)]_vars

(***************************************************************************)
(* Life cycle of fraud flags                                               *)
(***************************************************************************)
HoldsStaffRole(u) == \E row \in user_roles : row.user_id = u /\ row.role \in StaffRoles

\* C24: over order inserts and flag resolutions no fraud flag row is deleted,
\* resolved never goes from true back to false, and a row changes only by a
\* resolution whose caller holds admin or security_personnel, which records
\* resolved_by, resolved_at and resolution_notes.
C24_FlagLifecycle ==
    [][/\ Len(fraud_flags') >= Len(fraud_flags)
       /\ \A i \in 1..Len(fraud_flags) :
            /\ fraud_flags'[i].id = fraud_flags[i].id
            /\ fraud_flags[i].resolved => fraud_flags'[i].resolved
            /\ fraud_flags'[i] # fraud_flags[i] =>
                 /\ fraud_flags'[i].resolved
                 /\ HoldsStaffRole(fraud_flags'[i].resolved_by)
                 /\ fraud_flags'[i].resolved_at = now
                 /\ fraud_flags'[i].resolution_notes # NoNotes
                 /\ fraud_flags'[i] =
                      [fraud_flags[i] EXCEPT
                         !.resolved = TRUE,
                         !.resolved_by = fraud_flags'[i].resolved_by,
                         !.resolved_at = now,
                         !.resolution_notes = fraud_flags'[i].resolution_notes]]_vars

\* Two flags, one resolved by a security_personnel user with the three
\* resolution columns filled, one still open, while a customer exists whose
\* attempts changed nothing.
C24_Witness ==
    /\ \E i \in 1..Len(fraud_flags) :
         /\ fraud_flags[i].resolved
         /\ has_role(user_roles, fraud_flags[i].resolved_by, "security_personnel")
         /\ fraud_flags[i].resolved_at = now
         /\ fraud_flags[i].resolution_notes = "reviewed"
    /\ \E i \in 1..Len(fraud_flags) : ~fraud_flags[i].resolved
    /\ \E u \in Users : ~HoldsStaffRole(u)

(***************************************************************************)
(* transaction_audit: the audit trail of order mutations                   *)
(***************************************************************************)
MaxAuditOrders == 3
MaxUpdates == 2
MaxAuditRequests == 5

OrderStatuses == {"completed", "cancelled"}

\* "Users can update their own orders": USING (auth.uid() = user_id)
OrderUpdatePolicy(row, caller) == row.user_id = caller

\* BEFORE UPDATE ON orders: NEW.updated_at = now()
update_updated_at_column(new_row, t) == [new_row EXCEPT !.updated_at = t]

UpdateCount == Cardinality({k \in 1..Len(transaction_audit) :
                               transaction_audit[k].action_type = "update"})

\* UPDATE orders SET status = ... WHERE id = ...: the row is written when the
\* UPDATE policy admits the caller, the BEFORE trigger stamps updated_at and the
\* AFTER trigger writes the audit row in the same transaction; otherwise no
\* row matches and no trigger fires.
UpdateOrder(i, caller, status) ==
    /\ i \in 1..Len(orders)
    /\ UpdateCount < MaxUpdates
    /\ request.n < MaxAuditRequests
    /\ request' = Handled("update", [order_id |-> i, caller |-> caller,
                                     status |-> status])
    /\ IF OrderUpdatePolicy(orders[i], caller)
       THEN LET new_row == update_updated_at_column(
                               [orders[i] EXCEPT !.status = status], now)
            IN  /\ orders' = [orders EXCEPT ![i] = new_row]
                /\ transaction_audit' =
                     audit_order_changes(transaction_audit, "UPDATE", orders[i], new_row)
                /\ response' = [status |-> 200, rows |-> 1]
       ELSE /\ UNCHANGED <<orders, transaction_audit>>
            /\ response' = [status |-> 200, rows |-> 0]
    /\ UNCHANGED <<now, fraud_flags, http_request_queue, order_txns, authVars,
                   otpVars, genVars, admin_calls, clientVars>>

AuditAmounts == {400, 600}

NextAudit ==
    \/ \E u \in Users, amt \in AuditAmounts :
          Len(orders) < MaxAuditOrders /\ InsertOrder(u, amt, "up")
    \/ \E i \in 1..MaxAuditOrders, caller \in Users, status \in OrderStatuses :
          UpdateOrder(i, caller, status)

SpecAudit == InitFraud /\ [][NextAudit]_vars

UpdateStep == request'.kind = "update" /\ request'.n = request.n + 1

AuditRowsOf(oid, action) == {k \in 1..Len(transaction_audit) :
                                /\ transaction_audit[k].order_id = oid
                                /\ transaction_audit[k].action_type = action}

\* C25: over order inserts and order updates transaction_audit holds exactly
\* one row per order mutation: every stored order has exactly one 'create' row
\* whose new_value is the inserted row, every update that wrote a row appended
\* exactly one 'update' row with the row before and after, an insert that fails
\* and an update that matched no row append nothing, and rows already in the
\* table are never changed or removed.
C25_AuditTrail ==
    /\ [](/\ \A i \in 1..Len(orders) : Cardinality(AuditRowsOf(i, "create")) = 1
          /\ \A k \in 1..Len(transaction_audit) :
               /\ transaction_audit[k].order_id \in 1..Len(orders)
               /\ transaction_audit[k].action_type \in {"create", "update"})
    /\ [][/\ IsPrefix(transaction_audit, transaction_audit')
          /\ (OrderStep /\ response'.status = 201) =>
                /\ Len(transaction_audit') = Len(transaction_audit) + 1
                /\ Len(orders') = Len(orders) + 1
                /\ LET row == transaction_audit'[Len(transaction_audit')]
                   IN  /\ row.action_type = "create"
                       /\ row.order_id = Len(orders')
                       /\ row.old_value = NoValue
                       /\ row.new_value = orders'[Len(orders')]
          /\ (OrderStep /\ response'.status # 201) =>
                UNCHANGED <<orders, transaction_audit>>
          /\ (UpdateStep /\ response'.rows = 1) =>
                /\ Len(transaction_audit') = Len(transaction_audit) + 1
                /\ LET row == transaction_audit'[Len(transaction_audit')]
                   IN  /\ row.action_type = "update"
                       /\ row.order_id = request'.order_id
                       /\ row.old_value = orders[request'.order_id]
                       /\ row.new_value = orders'[request'.order_id]
                       /\ row.new_value.status = request'.status
                       /\ \A j \in 1..Len(orders) :
                            j # request'.order_id => orders'[j] = orders[j]
          /\ (UpdateStep /\ response'.rows = 0) =>
                UNCHANGED <<orders, transaction_audit>>
          /\ ~(OrderStep \/ UpdateStep) => UNCHANGED <<orders, transaction_audit>>]_vars

\* An order was created and updated twice by its owner (two 'update' rows
\* whose before and after differ), while one earlier request, an update that
\* matched no row, left no row in the trail.
C25_Witness ==
    /\ \E i \in 1..Len(orders) :
         /\ Cardinality(AuditRowsOf(i, "update")) = 2
         /\ \A k \in AuditRowsOf(i, "update") :
               transaction_audit[k].old_value # transaction_audit[k].new_value
    /\ request.kind = "update"
    /\ response.rows = 1
    /\ Len(transaction_audit) = Len(orders) + 2
    /\ request.n = Len(transaction_audit) + 1

(***************************************************************************)
(* Overlapping order inserts (READ COMMITTED, no lock in the trigger)      *)
(***************************************************************************)
MaxRaceOrders == 4

RaceAmounts == {300, 600}

OpenTxns == {t \in 1..MaxTxns : order_txns[t].pc = "open"}

RECURSIVE InflightRows(_)
InflightRows(ts) ==
    IF ts = {} THEN <<>>
    ELSE LET t == CHOOSE x \in ts : \A y \in ts : x <= y
         IN  <<[id |-> 0, user_id |-> order_txns[t].user_id,
                total_amount |-> order_txns[t].total_amount,
                status |-> "pending", created_at |-> order_txns[t].started,
                updated_at |-> order_txns[t].started]>>
             \o InflightRows(ts \ {t})

VisibleOrders_Dirty(committed, inflight) == committed \o inflight

\* The rows a statement of the trigger reads: committed rows, never the
\* uncommitted rows of other transactions; the trigger takes no lock.
VisibleOrders(committed, inflight) == committed

\* INSERT INTO orders inside a transaction that is still open: the AFTER
\* INSERT trigger evaluates the rules over the rows visible to it.
BeginOrder(t, u, amt) ==
    /\ order_txns[t].pc = "idle"
    /\ Len(orders) + Cardinality(OpenTxns) < MaxRaceOrders
    /\ order_txns' = [order_txns EXCEPT ![t] =
                        [pc |-> "open", user_id |-> u, total_amount |-> amt,
                         started |-> now, seen |-> Len(orders),
                         snapshot |-> VisibleOrders(orders, InflightRows(OpenTxns))]]
    /\ UNCHANGED <<now, orders, fraud_flags, http_request_queue, transaction_audit,
                   authVars, otpVars, httpVars, genVars, admin_calls, clientVars>>

\* COMMIT: the order row, its audit row, the flags the trigger inserted and
\* the requests it queued become visible together.
CommitOrder(t) ==
    /\ order_txns[t].pc = "open"
    /\ LET txn == order_txns[t]
           new_row == [id |-> Len(orders) + 1, user_id |-> txn.user_id,
                       total_amount |-> txn.total_amount, status |-> "pending",
                       created_at |-> txn.started, updated_at |-> txn.started]
           flags == check_order_fraud(fraud_flags, Append(txn.snapshot, new_row),
                                      new_row, txn.started)
       IN  /\ orders' = Append(orders, new_row)
           /\ fraud_flags' = flags
           /\ http_request_queue' =
                on_fraud_flag_created(http_request_queue,
                    SubSeq(flags, Len(fraud_flags) + 1, Len(flags)), "up")
           /\ transaction_audit' =
                audit_order_changes(transaction_audit, "INSERT", NoValue, new_row)
           /\ request' = Handled("order", [user_id |-> txn.user_id,
                                           total_amount |-> txn.total_amount,
                                           endpoint |-> "up", seen |-> txn.seen])
           /\ response' = [status |-> 201]
    /\ order_txns' = [order_txns EXCEPT ![t] = [pc |-> "idle"]]
    /\ UNCHANGED <<now, authVars, otpVars, genVars, admin_calls, clientVars>>

NextOrderRace ==
    \/ \E t \in 1..MaxTxns, u \in Users, amt \in RaceAmounts : BeginOrder(t, u, amt)
    \/ \E t \in 1..MaxTxns : CommitOrder(t)

SpecOrderRace == InitFraud /\ [][NextOrderRace]_vars

FlagsOfOrder(oid, ftype) == {i \in 1..Len(fraud_flags) :
                               /\ fraud_flags[i].order_id = oid
                               /\ fraud_flags[i].flag_type = ftype}

EarlierOrders(oid) == {j \in 1..(oid - 1) :
                         /\ orders[j].user_id = orders[oid].user_id
                         /\ orders[j].created_at > orders[oid].created_at - HourMinutes}

RECURSIVE TotalOf(_)
TotalOf(S) == IF S = {} THEN 0
              ELSE LET j == CHOOSE x \in S : TRUE
                   IN  orders[j].total_amount + TotalOf(S \ {j})

\* C26: the rule evaluation of an order insert counts the order rows that were
\* committed when its statement ran, plus its own row, and nothing of a
\* transaction that overlaps it: the flags that commit with the order are those
\* the rules give for that set of rows.
C26_SnapshotEvaluation ==
    [][OrderStep =>
         LET new_row == orders'[Len(orders')]
         IN  /\ request'.seen <= Len(orders)
             /\ fraud_flags' =
                  check_order_fraud(fraud_flags,
                                    Append(SubSeq(orders, 1, request'.seen), new_row),
                                    new_row, new_row.created_at)]_vars

\* Under-flagged burst: an order with three earlier orders of its user inside
\* the hour has no velocity flag, because it overlapped another insert.
C26_Witness ==
    \E oid \in 1..Len(orders) :
        /\ Cardinality(EarlierOrders(oid)) >= VelocityThreshold
        /\ FlagsOfOrder(oid, "velocity") = {}

\* Under-flagged total: the orders of a user up to and including this one sum
\* to more than the daily limit and the order has no daily_limit flag.
C26_WitnessDailyLimit ==
    \E oid \in 1..Len(orders) :
        /\ TotalOf(EarlierOrders(oid)) + orders[oid].total_amount > DailyLimit
        /\ FlagsOfOrder(oid, "daily_limit") = {}

(***************************************************************************)
(* Interleaved issuance and verification of one-time codes                 *)
(***************************************************************************)
\* C27: for any interleaving of the invalidating UPDATE and the INSERT of
\* overlapping send-2fa-code requests, every user has at most one code row that
\* is unused and unexpired.
C27_OneValidCodeInterleaved ==
    \A u \in Users : Cardinality({i \in RowsOf(u) : Usable(i)}) <= 1

InflightVerifies == {v \in DOMAIN verifies : verifies[v].pc # "idle"}

\* A verify-2fa-code request up to its lookup: validation and the SELECT of
\* the most recent unused, unexpired row.  A request that is rejected answers
\* at once; otherwise it holds the row it fetched.
VerifyLookup(v, userId, code, fetchOk) ==
    /\ verifies[v].pc = "idle"
    /\ request.n + Cardinality(InflightVerifies) < MaxRequests
    /\ LET rows == Candidates(two_factor_codes, userId, code, now)
       IN  IF userId = "" \/ code = NoCode
           THEN /\ request' = Handled("verify", [userId |-> userId, code |-> code])
                /\ response' = [status |-> 400, valid |-> FALSE,
                                error |-> "User ID and code are required"]
                /\ UNCHANGED verifies
           ELSE IF ~fetchOk
           THEN /\ request' = Handled("verify", [userId |-> userId, code |-> code])
                /\ response' = [status |-> 500, valid |-> FALSE,
                                error |-> "Verification failed"]
                /\ UNCHANGED verifies
           ELSE IF rows = {}
           THEN /\ request' = Handled("verify", [userId |-> userId, code |-> code])
                /\ response' = Rejection(two_factor_codes, userId, code, now)
                /\ UNCHANGED verifies
           ELSE /\ \E i \in MostRecent(two_factor_codes, rows) :
                     verifies' = [verifies EXCEPT ![v] =
                                     [pc |-> "mark", userId |-> userId,
                                      code |-> code, id |-> i]]
                /\ UNCHANGED <<request, response>>
    /\ UNCHANGED <<now, fraudVars, authVars, two_factor_codes, sends, genVars, admin_calls,
                   clientVars>>

\* .update({ used: true }).eq("id", codeRecord.id)
MarkUsed(codes, id) == [codes EXCEPT ![id].used = TRUE]

\* The rest of the request: the row is marked used by id, the profile is
\* updated and the response is valid:true.
VerifyMark(v) ==
    /\ verifies[v].pc = "mark"
    /\ two_factor_codes' = MarkUsed(two_factor_codes, verifies[v].id)
    /\ profiles' = [profiles EXCEPT
                      ![verifies[v].userId].two_factor_enabled = TRUE,
                      ![verifies[v].userId].last_login_at = now]
    /\ request' = Handled("verify", [userId |-> verifies[v].userId,
                                     code |-> verifies[v].code,
                                     id |-> verifies[v].id])
    /\ response' = [status |-> 200, valid |-> TRUE, error |-> ""]
    /\ verifies' = [verifies EXCEPT ![v] = [pc |-> "idle"]]
    /\ UNCHANGED <<now, fraudVars, user_roles, sends, genVars, admin_calls, clientVars>>

\* Codes are issued while no verification is in flight; verifications overlap.
NextVerifyRace ==
    \/ \E userId \in Users, k \in OtpSamples :
          InflightVerifies = {} /\ send_2fa_code("u1", userId, k, TRUE, "sent")
    \/ \E v \in DOMAIN verifies, userId \in OtpUserIds, code \in OtpCodes :
          VerifyLookup(v, userId, code, TRUE)
    \/ \E v \in DOMAIN verifies : VerifyMark(v)
    \/ \E d \in OtpSteps : ClockAdvance(d)

SpecVerifyRace == InitOtp /\ [][NextVerifyRace]_vars

\* C28: of the verify-2fa-code requests whose lookup and mark-used steps
\* interleave, a request answers valid:true only for a code row that was still
\* unused when it marked it, so a row is consumed by one verification only.
C28_ConsumedOnce ==
    [][(VerifyStep /\ response'.valid) =>
          /\ ~two_factor_codes[request'.id].used
          /\ two_factor_codes'[request'.id].used]_vars

\* Overlapping issuance with well-formed requests, and verification.
NextReissue ==
    \/ \E s \in DOMAIN sends, userId \in Users, k \in OtpSamples :
          SendInvalidate(s, "u1", userId, k)
    \/ \E s \in DOMAIN sends, insertOk \in BOOLEAN : SendInsert(s, insertOk, "sent")
    \/ \E userId \in Users, code \in OtpCodes \ {NoCode} :
          verify_2fa_code(userId, code, TRUE)
    \/ \E d \in OtpSteps : ClockAdvance(d)

SpecReissue == InitOtp /\ [][NextReissue]_vars

SendsOf(u) == {s \in InflightSends : sends[s].userId = u}

Newest(u) == CHOOSE i \in RowsOf(u) : \A j \in RowsOf(u) : j <= i

\* The last request answered was a send-2fa-code of u that returned 200 and
\* no send-2fa-code request of u is between its UPDATE and its INSERT.
IssuanceSettled(u) ==
    /\ request.kind = "send"
    /\ request.userId = u
    /\ response.status = 200
    /\ SendsOf(u) = {}

\* C29: once the overlapping send-2fa-code requests of a user have all
\* completed with 200, in whatever order their UPDATE and INSERT steps ran, the
\* user's most recently inserted code is unused, and the next request, if it is
\* a verification of that user carrying that code before it expires, returns
\* valid:true.
C29_ReRequestUsable ==
    /\ [](\A u \in Users : IssuanceSettled(u) =>
             /\ RowsOf(u) # {}
             /\ ~two_factor_codes[Newest(u)].used)
    /\ [][\A u \in Users :
            (/\ IssuanceSettled(u)
             /\ VerifyStep
             /\ request'.userId = u
             /\ request'.code = two_factor_codes[Newest(u)].code
             /\ two_factor_codes[Newest(u)].expires_at > now)
            => response'.valid]_vars

\* Two requests of one user overlapped (both rows were inserted after both
\* UPDATEs, so the older row is still unused); time passed, and the
\* verification that followed consumed the most recent code.
C29_Witness ==
    \E u \in Users :
        /\ request.kind = "verify"
        /\ request.userId = u
        /\ response.valid
        /\ Cardinality(RowsOf(u)) >= 2
        /\ two_factor_codes[Newest(u)].used
        /\ now > two_factor_codes[Newest(u)].created_at
        /\ \E i \in RowsOf(u) : i < Newest(u) /\ ~two_factor_codes[i].used
                                /\ two_factor_codes[i].code # two_factor_codes[Newest(u)].code

(***************************************************************************)
(* Overlapping admin-actions requests                                      *)
(***************************************************************************)
InflightCalls == {a \in DOMAIN admin_calls : admin_calls[a].pc # "idle"}

\* An admin-actions request up to its write: authentication, the role check
\* against user_roles, the body and the self-change check.  A request that is
\* refused answers at once; otherwise it goes on to its write.
AdminCheck(a, authHeader, body) ==
    /\ admin_calls[a].pc = "idle"
    /\ request.n + Cardinality(InflightCalls) < MaxAdminRequests
    /\ LET caller == getUser(authHeader)
           refusal ==
               IF authHeader = NoHeader \/ caller = NoUser THEN 401
               ELSE IF ~CallerIsAdmin(user_roles, caller) THEN 403
               ELSE IF ~body.json THEN 500
               ELSE IF SelfRoleChange(body.action, body.targetUserId, caller) THEN 400
               ELSE IF body.action = "change_role" /\ body.newRole = "" THEN 400
               ELSE IF body.action \notin {"change_role", "unlock_account",
                                           "lock_account"} THEN 400
               ELSE 0
       IN  IF refusal # 0
           THEN /\ request' = Handled("admin", [auth |-> authHeader, again |-> 0] @@ body)
                /\ Respond(refusal)
                /\ UNCHANGED admin_calls
           ELSE /\ admin_calls' = [admin_calls EXCEPT ![a] =
                                      [pc |-> "write", auth |-> authHeader,
                                       body |-> body]]
                /\ UNCHANGED <<request, response>>
    /\ UNCHANGED <<now, fraudVars, authVars, otpVars, genVars, clientVars>>

\* The rest of the request: the write on user_roles or profiles and the answer.
AdminWrite(a) ==
    /\ admin_calls[a].pc = "write"
    /\ LET body == admin_calls[a].body
       IN  /\ request' = Handled("admin", [auth |-> admin_calls[a].auth,
                                           again |-> 0] @@ body)
           /\ IF body.action = "change_role"
              THEN IF ChangeRoleFails(user_roles, body.targetUserId, body.newRole)
                   THEN Respond(500) /\ UNCHANGED <<user_roles, profiles>>
                   ELSE /\ user_roles' =
                               ChangeRole(user_roles, body.targetUserId, body.newRole)
                        /\ Respond(200)
                        /\ UNCHANGED profiles
              ELSE /\ profiles' = UpdateProfile(profiles, body.targetUserId,
                                                body.action = "lock_account",
                                                body.action = "unlock_account")
                   /\ Respond(200)
                   /\ UNCHANGED user_roles
    /\ admin_calls' = [admin_calls EXCEPT ![a] = [pc |-> "idle"]]
    /\ UNCHANGED <<now, fraudVars, otpVars, genVars, clientVars>>

RaceBodies ==
    {AdminBody("change_role", t, r, "") : t \in Users, r \in Roles}
    \cup {AdminBody("lock_account", t, "", "") : t \in Users}

NextAdminRace ==
    \/ \E a \in DOMAIN admin_calls, authHeader \in Users \cup {NoHeader},
          body \in RaceBodies : AdminCheck(a, authHeader, body)
    \/ \E a \in DOMAIN admin_calls : AdminWrite(a)

SpecAdminRace == InitAdmin /\ [][NextAdminRace]_vars

Admins(roles) == {row.user_id : row \in {r \in roles : r.role = "admin"}}

\* C30: while some user holds the admin role, no admin-actions request, alone
\* or overlapping another admin's request between role check and role update,
\* leaves user_roles without an admin; and while no user holds the admin role,
\* no request makes any user an admin.
C30_AdminSetPreserved ==
    [][/\ Admins(user_roles) # {} => Admins(user_roles') # {}
       /\ Admins(user_roles) = {} => Admins(user_roles') = {}]_vars

====
